---- MODULE Spec2Model ----
(***************************************************************************)
(* A model of csvc99 (src/csv.c): the special-byte scanner, the row state  *)
(* machine csv_line, the in-place finalizer touchup, csv_feed,             *)
(* csv_feed_last, and the streaming driver csv_scan.                       *)
(*                                                                         *)
(* Bytes are integers.  A buffer is a sequence of bytes; a pointer into a  *)
(* buffer is a 0-based offset from the buffer's first byte, and the null   *)
(* pointer is NULLP.  The byte at offset o of buffer b is b[o + 1].        *)
(***************************************************************************)
EXTENDS Integers, Sequences, FiniteSets, TLC

\* ------------------------------------------------------------------ bytes
LF == 10
CR == 13
NUL == 0
DefaultQte == 34
DefaultDelim == 44
\* the null pointer (C's 0); offsets are 0-based, so it is a non-offset
NULLP == -1
\* width of one SIMD window of the scanner and of touchup
VecWidth == 16
\* expand() grows the field arrays by this many elements
FldGrow == 64

Min(a, b) == IF a < b THEN a ELSE b

At(buf, o) == buf[o + 1]
Poke(buf, o, b) == [buf EXCEPT ![o + 1] = b]

\* the C string that starts at offset o of buf: the bytes up to the first NUL
RECURSIVE CStr(_, _)
CStr(buf, o) ==
    IF o >= Len(buf) \/ At(buf, o) = NUL THEN << >>
    ELSE << At(buf, o) >> \o CStr(buf, o + 1)

\* the value a caller reads for a field pointer: a string, or the null
\* indicator when the pointer is null
NullField == << NULLP >>
FieldValue(buf, f) == IF f = NULLP THEN NullField ELSE CStr(buf, f)

\* array store a[i] = v; the arrays hold the elements written so far
Store(a, i, v) == IF i + 1 <= Len(a) THEN [a EXCEPT ![i + 1] = v] ELSE Append(a, v)

\* ------------------------------------------------------------------ csv_open
\* csv_open's defaulting of its arguments (0 means "use the default")
OpenQte(qte) == IF qte # 0 THEN qte ELSE DefaultQte
OpenEsc(qte, esc) == IF esc # 0 THEN esc ELSE OpenQte(qte)
OpenDelim(delim) == IF delim # 0 THEN delim ELSE DefaultDelim

\* the parser instance after calloc and csv_open's assignments
csv_open(qte, esc, delim, nullstr) ==
    [ fldmax |-> 0, fldtop |-> 0,
      fld |-> << >>, escptr |-> << >>, len |-> << >>,
      qte |-> OpenQte(qte), esc |-> OpenEsc(qte, esc), delim |-> OpenDelim(delim),
      nullstr |-> nullstr, nullstrsz |-> Len(nullstr),
      lastbuf |-> << >>,
      arrays |-> {},
      state |-> [ linenum |-> 0, charnum |-> 0, rownum |-> 0,
                  errnum |-> "none", elinenum |-> 0, echarnum |-> 0,
                  erownum |-> 0, efldnum |-> 0 ] ]

\* ------------------------------------------------------------------ scanner
\* the bytes of cp->scan.match: qte, esc, delim, CR, LF
Match(cp) == { cp.qte, cp.esc, cp.delim, CR, LF }

\* fillbmap: the offsets, within the window of VecWidth bytes at p, of the
\* special bytes among the first plen bytes
fillbmap(cp, buf, p, plen) ==
    { off \in 0 .. (Min(plen, VecWidth) - 1) : At(buf, p + off) \in Match(cp) }

scan_reset(cp, buf, p, q) ==
    [ base |-> p, q |-> q, bmap |-> fillbmap(cp, buf, p, q - p) ]

\* __scan_forward: move window by window until one has a special byte;
\* rc = -1 when the windows are exhausted (sp->base is then left alone)
RECURSIVE ScanForwardFrom(_, _, _, _)
ScanForwardFrom(cp, buf, sp, base) ==
    IF sp.bmap # {} THEN [ sp |-> [sp EXCEPT !.base = base], rc |-> 0 ]
    ELSE LET nbase == base + VecWidth IN
         IF nbase >= sp.q THEN [ sp |-> sp, rc |-> -1 ]
         ELSE ScanForwardFrom(cp, buf,
                              [sp EXCEPT !.bmap = fillbmap(cp, buf, nbase, sp.q - nbase)],
                              nbase)

scan_forward(cp, buf, sp) == ScanForwardFrom(cp, buf, sp, sp.base)

LowestBit(bmap) == CHOOSE o \in bmap : \A o2 \in bmap : o <= o2

\* scan_next after the window has been found: take the lowest pending offset
ScanTake(fw) ==
    IF fw.rc # 0 THEN [ sp |-> fw.sp, pos |-> NULLP ]
    ELSE [ sp |-> [fw.sp EXCEPT !.bmap = fw.sp.bmap \ { LowestBit(fw.sp.bmap) }],
           pos |-> fw.sp.base + LowestBit(fw.sp.bmap) ]

\* scan_next: pointer to the next special byte, NULLP when none remains
scan_next(cp, buf, sp) ==
    ScanTake(IF sp.bmap = {} THEN scan_forward(cp, buf, sp) ELSE [ sp |-> sp, rc |-> 0 ])

\* ------------------------------------------------------------------ expand
\* expand: three reallocs in turn; failat = 1, 2, 3 makes that one fail
\* (0: none fails).  cp.arrays names the field arrays that are allocated.
ExpandOrder == << "fld", "escptr", "len" >>
expand(cp, failat) ==
    IF failat = 0
    THEN [ cp |-> [cp EXCEPT !.arrays = {"fld", "escptr", "len"},
                             !.fldmax = cp.fldmax + FldGrow],
           rc |-> 0 ]
    ELSE [ cp |-> [cp EXCEPT !.arrays =
                       cp.arrays \cup { ExpandOrder[k] : k \in 1 .. (failat - 1) }],
           rc |-> -1 ]

\* ------------------------------------------------------------------ reterr
\* mutant: the progress made before the error is added to the running counter
reterrCounting(cp, errnum, cno, nline, nchar) ==
    [cp EXCEPT !.state.errnum = errnum,
               !.state.elinenum = cp.state.linenum + nline,
               !.state.echarnum = cp.state.charnum + nchar,
               !.state.charnum = cp.state.charnum + nchar,
               !.state.erownum = cp.state.rownum + 1,
               !.state.efldnum = cno]

\* mutant: the error position is the offset in the call's buffer, without
\* the running counter
reterrLocal(cp, errnum, cno, nline, nchar) ==
    [cp EXCEPT !.state.errnum = errnum,
               !.state.elinenum = cp.state.linenum + nline,
               !.state.echarnum = nchar,
               !.state.erownum = cp.state.rownum + 1,
               !.state.efldnum = cno]

reterr(cp, errnum, cno, nline, nchar) ==
    [cp EXCEPT !.state.errnum = errnum,
               !.state.elinenum = cp.state.linenum + nline,
               !.state.echarnum = cp.state.charnum + nchar,
               !.state.erownum = cp.state.rownum + 1,
               !.state.efldnum = cno]

\* ------------------------------------------------------------------ csv_line
\* csv_line's locals; lab is the label control stands at, "RET" once it has
\* returned ret.  cp.fld[cno] plays *fld.
LineInit(cp, buf, bufsz) ==
    [ lab |-> "START_VAL", ppp |-> 0, cno |-> 0, nline |-> 0,
      quoted |-> FALSE, escptr |-> NULLP,
      scan |-> scan_reset(cp, buf, 0, bufsz), cp |-> cp, ret |-> 0 ]

Return(L, cp, ret) == [L EXCEPT !.lab = "RET", !.cp = cp, !.ret = ret]

\* START_VAL once the field arrays are large enough (ex: what expand gave)
StartField(L, buf, nx) ==
    IF nx.pos = NULLP THEN Return([L EXCEPT !.scan = nx.sp], L.cp, 0)
    ELSE [L EXCEPT !.scan = nx.sp, !.ppp = nx.pos,
                   !.quoted = (nx.pos = L.ppp /\ At(buf, nx.pos) = L.cp.qte),
                   !.lab = IF nx.pos = L.ppp /\ At(buf, nx.pos) = L.cp.qte
                           THEN "QUOTED_VAL" ELSE "FINISH"]

StartExpanded(L, buf, ex) ==
    IF ex.rc # 0
    THEN Return(L, reterr(ex.cp, "CSV_EOUTOFMEMORY", L.cno, L.nline, L.ppp), -1)
    ELSE StartField([L EXCEPT !.cp = [ex.cp EXCEPT !.fld = Store(@, L.cno, L.ppp)],
                              !.escptr = NULLP],
                    buf, scan_next(ex.cp, buf, L.scan))

START_VAL(L, buf, q, failat) ==
    StartExpanded(L, buf, IF L.cno >= L.cp.fldmax THEN expand(L.cp, failat)
                          ELSE [ cp |-> L.cp, rc |-> 0 ])

FirstEsc(L, ppp) == IF L.escptr # NULLP THEN L.escptr ELSE ppp

\* QUOTED_VAL at a quote byte at ppp; n2 is the scan_next after it
QuotedAtQuote(L, buf, ppp, n2) ==
    IF n2.pos = NULLP THEN Return([L EXCEPT !.scan = n2.sp, !.ppp = ppp], L.cp, 0)
    ELSE IF n2.pos # ppp + 1
    THEN Return([L EXCEPT !.scan = n2.sp, !.ppp = ppp],
                reterr(L.cp, "CSV_EQUOTE", L.cno, L.nline, ppp), -1)
    ELSE IF L.cp.esc = L.cp.qte /\ At(buf, n2.pos) = L.cp.qte
    THEN [L EXCEPT !.scan = n2.sp, !.ppp = ppp, !.escptr = FirstEsc(L, ppp)]
    ELSE [L EXCEPT !.scan = n2.sp, !.ppp = n2.pos, !.lab = "FINISH"]

\* QUOTED_VAL at an escape byte at ppp (esc # qte)
QuotedAtEsc(L, buf, q, ppp) ==
    IF ppp + 2 >= q
    THEN Return([L EXCEPT !.escptr = FirstEsc(L, ppp), !.ppp = ppp + 2], L.cp, 0)
    ELSE [L EXCEPT !.escptr = FirstEsc(L, ppp), !.ppp = ppp + 2,
                   !.scan = scan_reset(L.cp, buf, ppp + 2, q)]

\* QUOTED_VAL; nx is the scan_next it starts with
QuotedAt(L, buf, q, nx) ==
    IF nx.pos = NULLP THEN Return([L EXCEPT !.scan = nx.sp], L.cp, 0)
    ELSE IF At(buf, nx.pos) = L.cp.qte
    THEN QuotedAtQuote(L, buf, nx.pos, scan_next(L.cp, buf, nx.sp))
    ELSE IF At(buf, nx.pos) = L.cp.esc
    THEN QuotedAtEsc([L EXCEPT !.scan = nx.sp], buf, q, nx.pos)
    ELSE [L EXCEPT !.scan = nx.sp, !.ppp = nx.pos,
                   !.nline = L.nline + (IF At(buf, nx.pos) = LF THEN 1 ELSE 0)]

QUOTED_VAL(L, buf, q) == QuotedAt(L, buf, q, scan_next(L.cp, buf, L.scan))

FINROW(L, buf, q) ==
    LET rowsz == L.ppp
        nline == L.nline + 1
    IN  Return(L, [L.cp EXCEPT !.state.linenum = @ + nline,
                               !.state.rownum = @ + 1,
                               !.state.charnum = @ + rowsz],
               rowsz)

\* mutant: the delimiter does not advance to the next field slot
FinishEatSameField(L, buf, q, cur) ==
    IF cur = L.cp.delim
    THEN [L EXCEPT !.ppp = L.ppp + 1, !.lab = "START_VAL"]
    ELSE IF cur = LF
    THEN FINROW([L EXCEPT !.cno = L.cno + 1, !.ppp = L.ppp + 1,
                          !.cp.fldtop = L.cno + 1], buf, q)
    ELSE IF cur = CR /\ L.ppp + 1 < q /\ At(buf, L.ppp + 1) = LF
    THEN FINROW([L EXCEPT !.cno = L.cno + 1, !.ppp = L.ppp + 2,
                          !.cp.fldtop = L.cno + 1], buf, q)
    ELSE Return([L EXCEPT !.cno = L.cno + 1, !.ppp = L.ppp + 1],
                reterr([L.cp EXCEPT !.fldtop = L.cno + 1], "CSV_ECRLF",
                       L.cno + 1, L.nline, L.ppp + 1),
                -1)

\* mutant: a CR that no LF follows ends the row as well
FinishEatLoneCR(L, buf, q, cur) ==
    IF cur = L.cp.delim
    THEN [L EXCEPT !.cno = L.cno + 1, !.ppp = L.ppp + 1, !.lab = "START_VAL"]
    ELSE IF cur = LF
    THEN FINROW([L EXCEPT !.cno = L.cno + 1, !.ppp = L.ppp + 1,
                          !.cp.fldtop = L.cno + 1], buf, q)
    ELSE IF cur = CR /\ L.ppp + 1 < q /\ At(buf, L.ppp + 1) = LF
    THEN FINROW([L EXCEPT !.cno = L.cno + 1, !.ppp = L.ppp + 2,
                          !.cp.fldtop = L.cno + 1], buf, q)
    ELSE IF cur = CR
    THEN FINROW([L EXCEPT !.cno = L.cno + 1, !.ppp = L.ppp + 1,
                          !.cp.fldtop = L.cno + 1], buf, q)
    ELSE Return([L EXCEPT !.cno = L.cno + 1, !.ppp = L.ppp + 1],
                reterr([L.cp EXCEPT !.fldtop = L.cno + 1], "CSV_ECRLF",
                       L.cno + 1, L.nline, L.ppp + 1),
                -1)

\* FINISH after the field has been stored: eat the byte at L.ppp
FinishEat(L, buf, q, cur) ==
    IF cur = L.cp.delim
    THEN [L EXCEPT !.cno = L.cno + 1, !.ppp = L.ppp + 1, !.lab = "START_VAL"]
    ELSE IF cur = LF
    THEN FINROW([L EXCEPT !.cno = L.cno + 1, !.ppp = L.ppp + 1,
                          !.cp.fldtop = L.cno + 1], buf, q)
    ELSE IF cur = CR /\ L.ppp + 1 < q /\ At(buf, L.ppp + 1) = LF
    THEN FINROW([L EXCEPT !.cno = L.cno + 1, !.ppp = L.ppp + 2,
                          !.cp.fldtop = L.cno + 1], buf, q)
    ELSE Return([L EXCEPT !.cno = L.cno + 1, !.ppp = L.ppp + 1],
                reterr([L.cp EXCEPT !.fldtop = L.cno + 1], "CSV_ECRLF",
                       L.cno + 1, L.nline, L.ppp + 1),
                -1)

\* FINISH; start is *fld, the field's first byte
FinishField(L, buf, q, start) ==
    FinishEat([L EXCEPT
                 !.cp.len = Store(@, L.cno, IF L.quoted THEN L.ppp - start - 2
                                            ELSE L.ppp - start),
                 !.cp.escptr = Store(@, L.cno, L.escptr),
                 !.cp.fld = Store(@, L.cno, IF L.quoted THEN start + 1 ELSE start)],
              buf, q, At(buf, L.ppp))

FINISH(L, buf, q) == FinishField(L, buf, q, L.cp.fld[L.cno + 1])

RECURSIVE LineRun(_, _, _, _)
LineRun(L, buf, q, failat) ==
    IF L.lab = "RET" THEN L
    ELSE IF L.lab = "START_VAL" THEN LineRun(START_VAL(L, buf, q, failat), buf, q, failat)
    ELSE IF L.lab = "QUOTED_VAL" THEN LineRun(QUOTED_VAL(L, buf, q), buf, q, failat)
    ELSE LineRun(FINISH(L, buf, q), buf, q, failat)

LineResult(L) == [ cp |-> L.cp, ret |-> L.ret ]

\* csv_line(cp, buf, bufsz): [cp: the parser afterwards, ret: the return value].
\* failat chooses the realloc of expand that fails, if expand is called.
csv_line(cp, buf, bufsz, failat) ==
    IF bufsz <= 0
    THEN IF bufsz = 0 THEN [ cp |-> cp, ret |-> 0 ]
         ELSE [ cp |-> reterr(cp, "CSV_EPARAM", 0, 0, 0), ret |-> -1 ]
    ELSE LineResult(LineRun(LineInit(cp, buf, bufsz), buf, bufsz, failat))

\* ------------------------------------------------------------------ touchup
\* offset of the first qte or esc among the first n bytes at p (n capped at
\* one window); VecWidth when there is none (_mm_cmpestri)
EscOrQteAt(cp, buf, p, n) ==
    { k \in 0 .. (Min(n, VecWidth) - 1) : At(buf, p + k) \in {cp.qte, cp.esc} }
FirstEscOrQte(cp, buf, p, n) ==
    IF EscOrQteAt(cp, buf, p, n) = {} THEN VecWidth
    ELSE LowestBit(EscOrQteAt(cp, buf, p, n))

\* copy n bytes from p to s, lowest address first
RECURSIVE CopyBytes(_, _, _, _)
CopyBytes(buf, s, p, n) ==
    IF n = 0 THEN buf ELSE CopyBytes(Poke(buf, s, At(buf, p)), s + 1, p + 1, n - 1)

\* while (*p) *s++ = *p++ : [buf, s, p]
RECURSIVE CopyToNul(_, _, _)
CopyToNul(buf, s, p) ==
    IF p >= Len(buf) \/ At(buf, p) = NUL THEN [ buf |-> buf, s |-> s, p |-> p ]
    ELSE CopyToNul(Poke(buf, s, At(buf, p)), s + 1, p + 1)

\* the tail of the squeeze loop: fewer than a window left and no escape in it
SqueezeTail(r) == [ buf |-> r.buf, s |-> r.s ]

\* copy the head of m bytes, skip the esc byte, copy the escaped byte
SqueezeHead(buf, s, p, m) ==
    Poke(CopyBytes(buf, s, p, m), s + m, At(buf, p + m + 1))

\* the squeeze loop of a quoted field with escapes: [buf, s]
RECURSIVE Squeeze(_, _, _, _, _)
SqueezeStep(cp, buf, s, p, q, m) ==
    IF m = VecWidth
    THEN IF p + VecWidth < q
         THEN Squeeze(cp, CopyBytes(buf, s, p, VecWidth), s + VecWidth, p + VecWidth, q)
         ELSE SqueezeTail(CopyToNul(buf, s, p))
    ELSE Squeeze(cp, SqueezeHead(buf, s, p, m), s + m + 1, p + m + 2, q)

Squeeze(cp, buf, s, p, q) ==
    IF p >= q THEN [ buf |-> buf, s |-> s ]
    ELSE SqueezeStep(cp, buf, s, p, q, FirstEscOrQte(cp, buf, p, q - p))

\* the final NUL written at s
SqueezeEnd(cp, r) == [ cp |-> cp, buf |-> Poke(r.buf, r.s, NUL) ]

\* mutant: the null marker is compared without comparing the lengths
TouchSpanPrefix(cp, buf, i, p, q, escptr) ==
    IF escptr = NULLP
    THEN IF SubSeq(buf, p + 1, p + cp.nullstrsz) = cp.nullstr
         THEN [ cp |-> [cp EXCEPT !.fld[i + 1] = NULLP], buf |-> Poke(buf, q, NUL) ]
         ELSE [ cp |-> cp, buf |-> Poke(buf, q, NUL) ]
    ELSE SqueezeEnd(cp, Squeeze(cp, Poke(Poke(buf, q, NUL), escptr, At(buf, escptr + 1)),
                                escptr + 1, escptr + 2, q))

\* mutant: the terminator is written one byte late
TouchSpanLate(cp, buf, i, p, q, escptr) ==
    IF escptr = NULLP
    THEN IF q - p = cp.nullstrsz /\ SubSeq(buf, p + 1, q) = cp.nullstr
         THEN [ cp |-> [cp EXCEPT !.fld[i + 1] = NULLP], buf |-> Poke(buf, q + 1, NUL) ]
         ELSE [ cp |-> cp, buf |-> Poke(buf, q + 1, NUL) ]
    ELSE SqueezeEnd(cp, Squeeze(cp, Poke(Poke(buf, q + 1, NUL), escptr, At(buf, escptr + 1)),
                                escptr + 1, escptr + 2, q + 1))

\* one iteration of touchup's loop, for field i, whose content is [p, q) and
\* whose first escape is at escptr: [cp, buf]
TouchSpan(cp, buf, i, p, q, escptr) ==
    IF escptr = NULLP
    THEN IF q - p = cp.nullstrsz /\ SubSeq(buf, p + 1, q) = cp.nullstr
         THEN [ cp |-> [cp EXCEPT !.fld[i + 1] = NULLP], buf |-> Poke(buf, q, NUL) ]
         ELSE [ cp |-> cp, buf |-> Poke(buf, q, NUL) ]
    ELSE SqueezeEnd(cp, Squeeze(cp, Poke(Poke(buf, q, NUL), escptr, At(buf, escptr + 1)),
                                escptr + 1, escptr + 2, q))

TouchField(cp, buf, i) ==
    TouchSpan(cp, buf, i, cp.fld[i + 1], cp.fld[i + 1] + cp.len[i + 1], cp.escptr[i + 1])

RECURSIVE TouchFrom(_, _, _)
TouchNext(r, i) == TouchFrom(r.cp, r.buf, i)
TouchFrom(cp, buf, i) ==
    IF i >= cp.fldtop THEN [ cp |-> cp, buf |-> buf ]
    ELSE TouchNext(TouchField(cp, buf, i), i + 1)

touchup(cp, buf) == TouchFrom(cp, buf, 0)

\* ------------------------------------------------------------------ csv_feed
\* what the caller reads through *ret_field / *ret_nfield: the field strings
\* (NullField for a null pointer), none when *ret_field is null
RowOf(cp, buf) == [ i \in 1 .. cp.fldtop |-> FieldValue(buf, cp.fld[i]) ]

NoRow(cp, buf, ret) ==
    [ cp |-> cp, buf |-> buf, ret |-> ret,
      field |-> << >>, fieldnull |-> TRUE, nfield |-> 0 ]

\* csv_feed after touchup (t) of a completed row
FeedRow(t, ret, nfield) ==
    [ cp |-> t.cp, buf |-> t.buf, ret |-> ret,
      field |-> RowOf(t.cp, t.buf), fieldnull |-> FALSE, nfield |-> nfield ]

\* csv_feed after csv_line (ln)
FeedLine(ln, buf) ==
    IF ln.ret <= 0 THEN NoRow(ln.cp, buf, ln.ret)
    ELSE FeedRow(touchup(ln.cp, buf), ln.ret, ln.cp.fldtop)

\* csv_feed: [cp, buf: the buffer afterwards, ret, field: the strings read
\* through *ret_field (fieldnull when *ret_field = 0), nfield]
csv_feed(cp, buf, bufsz, failat) == FeedLine(csv_line(cp, buf, bufsz, failat), buf)

\* mutant: the synthetic LF is counted
FeedLastCounted(r, buf) == [ r EXCEPT !.cp.lastbuf = r.buf, !.buf = buf ]

\* csv_feed_last after csv_feed (r) ran on lastbuf: lastbuf is kept in cp,
\* the caller's buffer is untouched, the synthetic LF is not counted
FeedLastAppended(r, buf) ==
    [ r EXCEPT !.cp.lastbuf = r.buf, !.buf = buf,
               !.ret = IF r.ret > 0 THEN r.ret - 1 ELSE r.ret ]

\* csv_feed_last; mallocok tells whether the malloc of lastbuf succeeds
csv_feed_last(cp, buf, bufsz, failat, mallocok) ==
    IF bufsz < 0 THEN NoRow(reterr(cp, "CSV_EPARAM", 0, 0, 0), buf, -1)
    ELSE IF bufsz = 0 THEN NoRow(cp, buf, 0)
    ELSE IF At(buf, bufsz - 1) # LF
    THEN IF ~mallocok
         THEN NoRow(reterr([cp EXCEPT !.lastbuf = << >>], "CSV_EOUTOFMEMORY", 0, 0, 0),
                    buf, -1)
         ELSE FeedLastAppended(csv_feed(cp, SubSeq(buf, 1, bufsz) \o << LF, NUL >>,
                                        bufsz + 1, failat),
                               buf)
    ELSE csv_feed(cp, buf, bufsz, failat)

\* ------------------------------------------------------------------ bounds
\* longest input stream given to csv_scan
MaxInput == 4
\* longest buffer a client of csv_feed / csv_feed_last holds
MaxBuf == 4
\* longest content of a field that is rendered quoted
MaxContent == 2
\* csv_scan's initial buffer size and growth step, scaled down from 1 MiB
\* and 10 MiB so that a row longer than the buffer occurs
BufInit == 3
BufGrow == 2

\* ------------------------------------------------------------------ inputs
\* input bytes: two ordinary letters, backslash, and the special bytes
Letters == { 97, 78 }
Backslash == { 92 }
Alphabet == Letters \cup Backslash \cup { DefaultQte, DefaultDelim, CR, LF }

\* the sequences over S of length at most n
SeqsUpTo(S, n) == UNION { [ 1 .. k -> S ] : k \in 0 .. n }

\* the argument lists csv_scan / csv_open are called with: all defaults;
\* backslash as escape; "N" as null marker
ArgsDefault == [ qte |-> 0, esc |-> 0, delim |-> 0, nullstr |-> << >> ]
ArgsEscape == [ qte |-> 0, esc |-> 92, delim |-> 0, nullstr |-> << >> ]
ArgsNull == [ qte |-> 0, esc |-> 0, delim |-> 0, nullstr |-> << 78 >> ]

VARIABLES
    args,       \* csv_scan's qte, esc, delim, nullstr arguments
    input,      \* the whole byte stream behind the fill function
    src,        \* the part of it the fill function has not delivered yet
    chunks,     \* lengths of the chunks the fill function delivered so far
    faults,     \* what the environment did besides delivering bytes
    pc,         \* where csv_scan (or the client of the parser) stands
    buf, p, q, bufsz, eof,   \* csv_scan's locals
    cp,         \* the parser instance
    heap,       \* live blocks owned by csv_scan: "buf", "cp"
    calls,      \* the callback invocations so far, in order
    ret,        \* csv_scan's return value once it has returned
    last        \* the most recent direct call of csv_feed / csv_feed_last by a client

vars == << args, input, src, chunks, faults, pc, buf, p, q, bufsz, eof,
           cp, heap, calls, ret, last >>

\* ------------------------------------------------------------------ csv_scan
\* csv_scan's state as one record, so that a run can also be computed
Driver == [ pc |-> pc, buf |-> buf, p |-> p, q |-> q, bufsz |-> bufsz,
            eof |-> eof, cp |-> cp, heap |-> heap, calls |-> calls, ret |-> ret ]

NoError == csv_open(0, 0, 0, << >>).state

\* on_row(handle, rownum, field, nfield)
RowCall(rownum, field, fieldnull, nfield) ==
    [ kind |-> "row", rownum |-> rownum, field |-> field, fieldnull |-> fieldnull,
      nfield |-> nfield, errtype |-> "none", cpnull |-> TRUE, estate |-> NoError ]

\* on_error(handle, errtype, errmsg, 0)
ErrorCall(errtype) ==
    [ kind |-> "error", rownum |-> 0, field |-> << >>, fieldnull |-> TRUE,
      nfield |-> 0, errtype |-> errtype, cpnull |-> TRUE, estate |-> NoError ]

\* on_error(handle, 0, 0, cp): the handler reads the error record of cp
ParserErrorCall(c) ==
    [ kind |-> "error", rownum |-> 0, field |-> << >>, fieldnull |-> TRUE,
      nfield |-> 0, errtype |-> "none", cpnull |-> FALSE, estate |-> c.state ]

\* bail: free(buf); return -1
Bail(d) == [d EXCEPT !.pc = "done", !.heap = d.heap \ {"buf"}, !.ret = -1]

DriverInit ==
    [ pc |-> "start", buf |-> << >>, p |-> 0, q |-> 0, bufsz |-> BufInit,
      eof |-> FALSE, cp |-> csv_open(0, 0, 0, << >>), heap |-> {},
      calls |-> << >>, ret |-> 0 ]

\* malloc of buf and csv_open
ScanStart(d, a, bufok, cpok) ==
    IF ~bufok
    THEN Bail([d EXCEPT !.calls = Append(@, ErrorCall("CSV_EOUTOFMEMORY"))])
    ELSE IF ~cpok
    THEN Bail([d EXCEPT !.heap = {"buf"},
                        !.calls = Append(@, ErrorCall("CSV_EOUTOFMEMORY"))])
    ELSE [d EXCEPT !.heap = {"buf", "cp"},
                   !.cp = csv_open(a.qte, a.esc, a.delim, a.nullstr),
                   !.pc = "outer"]

\* mutant: the outer loop goes on after end of stream
AfterInnerNoEof(d) == [d EXCEPT !.pc = "outer"]

\* where control goes when the inner loop is left
AfterInner(d) == [d EXCEPT !.pc = IF d.eof THEN "last" ELSE "outer"]

\* memmove of [p, q) to the start of buf
Shift(d) ==
    IF d.p # 0
    THEN [d EXCEPT !.buf = SubSeq(d.buf, d.p + 1, d.q), !.q = d.q - d.p, !.p = 0]
    ELSE d

\* the outer loop after the shift: expand buf if full, then fill
OuterShifted(d, nb, chunk, reallocok) ==
    IF d.q - d.p = d.bufsz /\ ~reallocok
    THEN Bail([d EXCEPT !.calls = Append(@, ErrorCall("CSV_EOUTOFMEMORY"))])
    ELSE IF nb < 0
    THEN Bail([d EXCEPT !.bufsz = IF d.q - d.p = d.bufsz THEN @ + BufGrow ELSE @])
    ELSE [d EXCEPT !.bufsz = IF d.q - d.p = d.bufsz THEN @ + BufGrow ELSE @,
                   !.eof = (nb = 0), !.buf = SubSeq(d.buf, 1, d.q) \o chunk,
                   !.q = d.q + nb, !.pc = "inner"]

\* the outer loop's body up to the inner loop: shift, expand, fill.
\* nb is what on_bufempty returns, chunk the bytes it stored (nb of them)
ScanOuter(d, nb, chunk, reallocok) == OuterShifted(Shift(d), nb, chunk, reallocok)

\* buf with the bytes from offset o on replaced by w
Splice(b, o, w) == SubSeq(b, 1, o) \o w \o SubSeq(b, o + Len(w) + 1, Len(b))

\* the inner loop's body after csv_feed returned r; stop is what on_row returns
InnerFed(d, r, stop) ==
    IF r.ret <= 0
    THEN IF r.ret = 0
         THEN AfterInner([d EXCEPT !.cp = r.cp, !.buf = Splice(d.buf, d.p, r.buf)])
         ELSE Bail([d EXCEPT !.cp = r.cp, !.buf = Splice(d.buf, d.p, r.buf),
                             !.calls = Append(@, ParserErrorCall(r.cp))])
    ELSE IF stop
    THEN Bail([d EXCEPT !.cp = r.cp, !.buf = Splice(d.buf, d.p, r.buf),
                        !.calls = Append(@, RowCall(r.cp.state.rownum, r.field,
                                                    r.fieldnull, r.nfield))])
    ELSE [d EXCEPT !.cp = r.cp, !.buf = Splice(d.buf, d.p, r.buf),
                   !.calls = Append(@, RowCall(r.cp.state.rownum, r.field,
                                               r.fieldnull, r.nfield)),
                   !.p = d.p + r.ret]

\* one test of the inner loop's condition and, if it holds, one body
ScanInner(d, stop, failat) ==
    IF d.p < d.q
    THEN InnerFed(d, csv_feed(d.cp, SubSeq(d.buf, d.p + 1, d.q), d.q - d.p, failat), stop)
    ELSE AfterInner(d)

\* if (p != q) on_error(...extra data...); else free(buf); return 0
ScanTail(d) ==
    IF d.p # d.q
    THEN Bail([d EXCEPT !.calls = Append(@, ErrorCall("CSV_EEXTRAINPUT"))])
    ELSE [d EXCEPT !.pc = "done", !.heap = d.heap \ {"buf"}, !.ret = 0]

\* the last row, after csv_feed_last returned r
LastFed(d, r, stop) ==
    IF r.ret < 0
    THEN Bail([d EXCEPT !.cp = r.cp, !.calls = Append(@, ParserErrorCall(r.cp))])
    ELSE IF stop
    THEN Bail([d EXCEPT !.cp = r.cp, !.buf = Splice(d.buf, d.p, r.buf),
                        !.calls = Append(@, RowCall(r.cp.state.rownum, r.field,
                                                    r.fieldnull, r.nfield))])
    ELSE ScanTail([d EXCEPT !.cp = r.cp, !.buf = Splice(d.buf, d.p, r.buf),
                            !.calls = Append(@, RowCall(r.cp.state.rownum, r.field,
                                                        r.fieldnull, r.nfield)),
                            !.p = d.p + r.ret])

\* after the loops: the last row, the check for extra input, the return
ScanLast(d, stop, failat, mallocok) ==
    IF d.p < d.q
    THEN LastFed(d, csv_feed_last(d.cp, SubSeq(d.buf, d.p + 1, d.q), d.q - d.p,
                                  failat, mallocok), stop)
    ELSE ScanTail(d)

\* the blocks that are live: csv_scan's own, and those the parser owns
Live(d) ==
    d.heap \cup (IF "cp" \in d.heap
                 THEN d.cp.arrays \cup (IF d.cp.lastbuf # << >> THEN {"lastbuf"} ELSE {})
                 ELSE {})

\* ------------------------------------------------------------------ runs
\* what a fill function that hands out the stream in pieces of the sizes in
\* sizes (then all that is left) returns when given room bytes of room
FillSize(rest, sizes, room) ==
    Min(IF sizes = << >> THEN Len(rest) ELSE Min(Head(sizes), Len(rest)), room)

\* a whole run of csv_scan from d, with no allocation failure, no fill error
\* and an on_row that never asks to stop: the driver state at its return
RECURSIVE RunFrom(_, _, _, _)
RunOuter(d, a, rest, sizes, nb) ==
    RunFrom(ScanOuter(d, nb, SubSeq(rest, 1, nb), TRUE), a,
            SubSeq(rest, nb + 1, Len(rest)),
            IF sizes = << >> THEN sizes ELSE Tail(sizes))

RunFrom(d, a, rest, sizes) ==
    IF d.pc = "done" THEN d
    ELSE IF d.pc = "start" THEN RunFrom(ScanStart(d, a, TRUE, TRUE), a, rest, sizes)
    ELSE IF d.pc = "outer"
    THEN RunOuter(d, a, rest, sizes,
                  FillSize(rest, sizes,
                           (IF d.q - d.p = d.bufsz THEN d.bufsz + BufGrow ELSE d.bufsz)
                              - (d.q - d.p)))
    ELSE IF d.pc = "inner" THEN RunFrom(ScanInner(d, FALSE, 0), a, rest, sizes)
    ELSE RunFrom(ScanLast(d, FALSE, 0, TRUE), a, rest, sizes)

\* csv_scan run on stream s delivered in pieces of the given sizes
Run(a, s, sizes) == RunFrom(DriverInit, a, s, sizes)

\* ------------------------------------------------------------------ actions
SetDriver(d) ==
    /\ pc' = d.pc /\ buf' = d.buf /\ p' = d.p /\ q' = d.q /\ bufsz' = d.bufsz
    /\ eof' = d.eof /\ cp' = d.cp /\ heap' = d.heap /\ calls' = d.calls
    /\ ret' = d.ret

NoCall == [ op |-> "none", arg |-> << >>, bufsz |-> 0, ret |-> 0, field |-> << >>,
            fieldnull |-> TRUE, nfield |-> 0, before |-> NoError, after |-> << >> ]

Init ==
    /\ args \in { ArgsDefault, ArgsEscape }
    /\ input \in SeqsUpTo(Alphabet \ (IF args.esc = 0 THEN Backslash ELSE {}), MaxInput)
    /\ src = input
    /\ chunks = << >>
    /\ faults = {}
    /\ pc = DriverInit.pc /\ buf = DriverInit.buf /\ p = DriverInit.p
    /\ q = DriverInit.q /\ bufsz = DriverInit.bufsz /\ eof = DriverInit.eof
    /\ cp = DriverInit.cp /\ heap = DriverInit.heap /\ calls = DriverInit.calls
    /\ ret = DriverInit.ret
    /\ last = NoCall

Start ==
    /\ pc = "start"
    /\ \E bufok \in BOOLEAN, cpok \in BOOLEAN :
          /\ SetDriver(ScanStart(Driver, args, bufok, cpok))
          /\ faults' = faults \cup (IF bufok /\ cpok THEN {} ELSE {"oom"})
    /\ UNCHANGED << args, input, src, chunks, last >>

\* the fill function delivers the next nb >= 1 bytes of the stream, as many
\* as it likes up to the room it is given, and 0 once the stream has ended
Outer ==
    /\ pc = "outer"
    /\ LET used == q - p
           room == (IF used = bufsz THEN bufsz + BufGrow ELSE bufsz) - used
       IN  \E nb \in -1 .. Min(room, Len(src)), reallocok \in BOOLEAN :
              /\ (nb = 0) => (src = << >>)
              /\ reallocok \/ used = bufsz
              /\ SetDriver(ScanOuter(Driver, nb, SubSeq(src, 1, nb), reallocok))
              /\ src' = IF nb > 0 THEN SubSeq(src, nb + 1, Len(src)) ELSE src
              /\ chunks' = IF nb > 0 THEN Append(chunks, nb) ELSE chunks
              /\ faults' = faults \cup (IF nb < 0 THEN {"fill"} ELSE {})
                                  \cup (IF reallocok THEN {} ELSE {"oom"})
    /\ UNCHANGED << args, input, last >>

Inner ==
    /\ pc = "inner"
    /\ \E stop \in BOOLEAN, failat \in 0 .. 3 :
          /\ (failat # 0) => (cp.fldmax = 0 /\ p < q)
          /\ stop => (p < q /\ csv_feed(cp, SubSeq(buf, p + 1, q), q - p, failat).ret > 0)
          /\ SetDriver(ScanInner(Driver, stop, failat))
          /\ faults' = faults \cup (IF stop THEN {"stop"} ELSE {})
                              \cup (IF failat # 0 THEN {"oom"} ELSE {})
    /\ UNCHANGED << args, input, src, chunks, last >>

Last ==
    /\ pc = "last"
    /\ \E stop \in BOOLEAN, failat \in 0 .. 3, mallocok \in BOOLEAN :
          /\ (failat # 0) => (cp.fldmax = 0 /\ p < q /\ mallocok)
          /\ (~mallocok) => (p < q /\ At(buf, q - 1) # LF)
          /\ stop => (p < q /\ csv_feed_last(cp, SubSeq(buf, p + 1, q), q - p,
                                              failat, mallocok).ret >= 0)
          /\ SetDriver(ScanLast(Driver, stop, failat, mallocok))
          /\ faults' = faults \cup (IF stop THEN {"stop"} ELSE {})
                              \cup (IF failat # 0 \/ ~mallocok THEN {"oom"} ELSE {})
    /\ UNCHANGED << args, input, src, chunks, last >>

Next == Start \/ Outer \/ Inner \/ Last

Spec == Init /\ [][Next]_vars


\* ------------------------------------------------------------------ client
\* A client that calls the parser directly.  buf is the data it will have
\* received in the end, [0, q) the part received so far, p the first byte
\* not yet consumed.  It calls csv_feed on [p, q) at any time, csv_feed_last
\* once everything has been received, advances p by what a call returns,
\* and gives up at the first error.  calls keeps the rows returned.

\* content rendered as a quoted field, every quote byte doubled
RECURSIVE Doubled(_, _)
Doubled(qte, c) ==
    IF c = << >> THEN << >>
    ELSE (IF Head(c) = qte THEN << qte, qte >> ELSE << Head(c) >>) \o Doubled(qte, Tail(c))
Quoted(qte, c) == << qte >> \o Doubled(qte, c) \o << qte >>

ContentBytes == Letters \cup { DefaultQte, DefaultDelim, CR, LF }
Contents == SeqsUpTo(ContentBytes, MaxContent)
RowTails == { << LF >>, << CR, LF >>, << DefaultDelim, LF >> }
QuotedRows == { Quoted(DefaultQte, c) \o t : c \in Contents, t \in RowTails }

\* what a direct call left behind
Called(op, arg, n, r, before) ==
    [ op |-> op, arg |-> arg, bufsz |-> n, ret |-> r.ret, field |-> r.field,
      fieldnull |-> r.fieldnull, nfield |-> r.nfield, before |-> before,
      after |-> r.buf ]

RowReturned(op, r) ==
    [ kind |-> op, rownum |-> r.cp.state.rownum, field |-> r.field,
      fieldnull |-> r.fieldnull, nfield |-> r.nfield, errtype |-> "none",
      cpnull |-> FALSE, estate |-> r.cp.state ]

InitFeed ==
    /\ args \in { ArgsDefault, ArgsEscape, ArgsNull }
    /\ input \in SeqsUpTo(Alphabet \ (IF args.esc = 0 THEN Backslash ELSE {}), MaxBuf)
                    \cup (IF args.esc = 0 THEN QuotedRows ELSE {})
    /\ src = << >>
    /\ chunks = << >>
    /\ faults = {}
    /\ pc = "client"
    /\ buf = input /\ p = 0 /\ q = 0 /\ bufsz = Len(input)
    /\ eof = FALSE
    /\ cp = csv_open(args.qte, args.esc, args.delim, args.nullstr)
    /\ heap = {"cp"}
    /\ calls = << >>
    /\ ret = 0
    /\ last = NoCall

\* the client's state after a call on the bytes from p on returned r
ClientCalled(op, arg, n, r) ==
    /\ cp' = r.cp
    /\ buf' = IF op = "csv_feed" THEN Splice(buf, p, r.buf) ELSE buf
    /\ p' = IF r.ret > 0 THEN p + r.ret ELSE p
    /\ calls' = IF r.ret > 0 THEN Append(calls, RowReturned(op, r)) ELSE calls
    /\ last' = Called(op, arg, n, r, cp.state)
    /\ pc' = IF r.ret < 0 THEN "failed" ELSE pc

\* more bytes arrive
More ==
    /\ pc = "client"
    /\ \E n \in (q + 1) .. Len(buf) : q' = n
    /\ UNCHANGED << args, input, src, chunks, faults, pc, buf, p, bufsz, eof,
                    cp, heap, calls, ret, last >>

\* csv_feed(cp, buf + p, q - p, ...), or a call with bufsz = -1
Feed ==
    /\ pc = "client"
    /\ \E n \in { p - 1, q }, failat \in 0 .. 3 :
          /\ (failat # 0) => (cp.fldmax = 0 /\ n > p)
          /\ ClientCalled("csv_feed", SubSeq(buf, p + 1, n), n - p,
                          csv_feed(cp, SubSeq(buf, p + 1, n), n - p, failat))
          /\ faults' = faults \cup (IF failat # 0 THEN {"oom"} ELSE {})
    /\ UNCHANGED << args, input, src, chunks, q, bufsz, eof, heap, ret >>

\* csv_feed_last(cp, buf + p, q - p, ...), or with bufsz = -1, once all the
\* data has arrived.  A call can complete a row and still return 0, so the
\* client can repeat it for ever: the row counter is capped.
FeedLast ==
    /\ pc = "client"
    /\ q = Len(buf)
    /\ cp.state.rownum <= MaxBuf
    /\ \E n \in { p - 1, q }, failat \in 0 .. 3, mallocok \in BOOLEAN :
          /\ (failat # 0) => (cp.fldmax = 0 /\ n > p /\ mallocok)
          /\ (~mallocok) => (n > p /\ At(buf, n - 1) # LF)
          /\ ClientCalled("csv_feed_last", SubSeq(buf, p + 1, n), n - p,
                          csv_feed_last(cp, SubSeq(buf, p + 1, n), n - p, failat, mallocok))
          /\ faults' = faults \cup (IF failat # 0 \/ ~mallocok THEN {"oom"} ELSE {})
    /\ UNCHANGED << args, input, src, chunks, q, bufsz, eof, heap, ret >>

NextFeed == More \/ Feed \/ FeedLast

SpecFeed == InitFeed /\ [][NextFeed]_vars


\* ------------------------------------------------------------------ reference
\* The row grammar the claims speak of, independent of the parser: a row is
\* fields separated by the delimiter and ended by LF or CR LF; a field is
\* unquoted (no special byte in it) or quoted (quote bytes doubled, or, with
\* a separate escape byte, every escape byte followed by a literal byte).

\* RefRow(a, s, i, "start"): the offset just after the row of s that starts
\* at offset i; Malformed if no row starts there, Incomplete if s ends first
Malformed == 0 - 1
Incomplete == 0 - 2

RefEnd(s, i) ==
    IF At(s, i) = LF THEN i + 1
    ELSE IF i + 1 >= Len(s) THEN Incomplete
    ELSE IF At(s, i + 1) = LF THEN i + 2 ELSE Malformed

RECURSIVE RefRow(_, _, _, _)
RefRow(a, s, i, mode) ==
    IF i >= Len(s) THEN Incomplete
    ELSE IF mode = "start" /\ At(s, i) = OpenQte(a.qte) THEN RefRow(a, s, i + 1, "quoted")
    ELSE IF mode # "quoted"
    THEN IF At(s, i) = OpenDelim(a.delim) THEN RefRow(a, s, i + 1, "start")
         ELSE IF At(s, i) \in {CR, LF} THEN RefEnd(s, i)
         ELSE IF At(s, i) \in {OpenQte(a.qte), OpenEsc(a.qte, a.esc)} THEN Malformed
         ELSE RefRow(a, s, i + 1, "unquoted")
    ELSE IF At(s, i) = OpenQte(a.qte)
    THEN IF i + 1 >= Len(s) THEN Incomplete
         ELSE IF OpenEsc(a.qte, a.esc) = OpenQte(a.qte) /\ At(s, i + 1) = OpenQte(a.qte)
         THEN RefRow(a, s, i + 2, "quoted")
         ELSE IF At(s, i + 1) = OpenDelim(a.delim) THEN RefRow(a, s, i + 2, "start")
         ELSE IF At(s, i + 1) \in {CR, LF} THEN RefEnd(s, i + 1)
         ELSE Malformed
    ELSE IF At(s, i) = OpenEsc(a.qte, a.esc)
    THEN IF i + 1 >= Len(s) THEN Incomplete ELSE RefRow(a, s, i + 2, "quoted")
    ELSE RefRow(a, s, i + 1, "quoted")

\* the number of rows of s from offset i on, if that is a sequence of whole
\* rows; Malformed otherwise
RECURSIVE RefRowCount(_, _, _)
RefCountNext(a, s, e) ==
    IF e < 0 THEN Malformed
    ELSE IF RefRowCount(a, s, e) < 0 THEN Malformed
    ELSE 1 + RefRowCount(a, s, e)
RefRowCount(a, s, i) ==
    IF i >= Len(s) THEN 0 ELSE RefCountNext(a, s, RefRow(a, s, i, "start"))

\* the fields of the row of s that starts at offset i (there is one), each
\* with its content and whether it was quoted
RefField(cur, quoted) == [ content |-> cur, quoted |-> quoted ]
RECURSIVE RefFields(_, _, _, _, _)
RefFields(a, s, i, mode, cur) ==
    IF mode = "start" /\ At(s, i) = OpenQte(a.qte) THEN RefFields(a, s, i + 1, "quoted", << >>)
    ELSE IF mode # "quoted"
    THEN IF At(s, i) = OpenDelim(a.delim)
         THEN << RefField(cur, FALSE) >> \o RefFields(a, s, i + 1, "start", << >>)
         ELSE IF At(s, i) \in {CR, LF} THEN << RefField(cur, FALSE) >>
         ELSE RefFields(a, s, i + 1, "unquoted", Append(cur, At(s, i)))
    ELSE IF At(s, i) = OpenQte(a.qte)
    THEN IF OpenEsc(a.qte, a.esc) = OpenQte(a.qte) /\ At(s, i + 1) = OpenQte(a.qte)
         THEN RefFields(a, s, i + 2, "quoted", Append(cur, At(s, i + 1)))
         ELSE IF At(s, i + 1) = OpenDelim(a.delim)
         THEN << RefField(cur, TRUE) >> \o RefFields(a, s, i + 2, "start", << >>)
         ELSE << RefField(cur, TRUE) >>
    ELSE IF At(s, i) = OpenEsc(a.qte, a.esc)
    THEN RefFields(a, s, i + 2, "quoted", Append(cur, At(s, i + 1)))
    ELSE RefFields(a, s, i + 1, "quoted", Append(cur, At(s, i)))

RowFields(a, s) == RefFields(a, s, 0, "start", << >>)

\* s is one row that lacks its LF: with an LF it is a row, and it does not
\* end in a CR that the LF would complete (another field could follow)
OneRowNoLF(a, s) ==
    /\ s # << >>
    /\ RefRow(a, s \o << LF >>, 0, "start") = Len(s) + 1
    /\ RefRow(a, s \o << OpenDelim(a.delim), LF >>, 0, "start") = Len(s) + 2

\* ------------------------------------------------------------------ claims

\* C1: for a well-formed input of several rows (LF or CR LF ended) that the
\* fill function delivers in two successive calls, csv_scan makes the same
\* callback invocations (rows, fields, row numbers) and returns the same
\* value as when the fill function delivers the whole input in one call.
\* (A run that ends after the first of the two deliveries, with input still
\* to come, is a run of the two-call delivery as well.)
C1_SplitSameAsWhole ==
    ( /\ pc = "done" /\ faults = {}
      /\ Len(chunks) = 2 => src = << >>
      /\ Len(chunks) = 1 => src # << >>
      /\ Len(chunks) \in {1, 2}
      /\ Len(input) <= BufInit
      /\ RefRowCount(args, input, 0) >= 2 )
    => ( /\ calls = Run(args, input, << >>).calls
         /\ ret = Run(args, input, << >>).ret )

\* the field the parser hands back for a field of the given content: the
\* content, or the null indicator if the content is the null marker
Handed(a, f, content) == f = content \/ (content = a.nullstr /\ f = NullField)

RowCalls(k) == Cardinality({ j \in 1 .. k : calls[j].kind = "row" })

\* C8: every on_row invocation hands over a completed row (a field array
\* with at least one field), and the row numbers of the invocations are
\* 1, 2, 3, ... in order; on_row is never invoked for a parse attempt that
\* completed no row.
C8_OnRowOncePerRow ==
    \A k \in 1 .. Len(calls) :
        calls[k].kind = "row"
        => ( /\ ~calls[k].fieldnull
             /\ calls[k].nfield >= 1
             /\ calls[k].rownum = RowCalls(k) )

\* C9: when csv_scan has returned -1 because of an error (and not because
\* on_row asked it to stop), on_error was invoked exactly once, and it was
\* the last callback invocation.
C9_ErrorReportedOnce ==
    (pc = "done" /\ ret = -1 /\ "stop" \notin faults)
    => ( /\ Cardinality({ j \in 1 .. Len(calls) : calls[j].kind = "error" }) = 1
         /\ calls[Len(calls)].kind = "error" )

\* C10: when csv_scan has returned, nothing it allocated is still allocated:
\* not the input buffer, not the parser, its field arrays or its spill buffer.
C10_AllReleased == pc = "done" => Live(Driver) = {}


\* ---- claims about direct calls (SpecFeed); last is the most recent call

\* the most recent call was a csv_feed call in which no allocation failed
FedLast == last.op = "csv_feed" /\ "oom" \notin faults

\* C3: with escape = quote, csv_feed on the text made by doubling the quote
\* bytes of a content, enclosing it in quotes and appending a row end (LF,
\* CR LF, or a delimiter and LF) returns the whole text as one row whose
\* first field is the content, byte for byte.
C3_QuotedRoundTrip ==
    \A c \in Contents, t \in RowTails :
        (FedLast /\ cp.esc = cp.qte /\ last.arg = Quoted(cp.qte, c) \o t)
        => ( /\ last.ret = Len(last.arg)
             /\ ~last.fieldnull
             /\ last.nfield = (IF Head(t) = cp.delim THEN 2 ELSE 1)
             /\ last.field[1] = c )

\* the position of the first LF of s, 0 if it has none
FirstLF(s) ==
    IF \E k \in 1 .. Len(s) : s[k] = LF
    THEN CHOOSE k \in 1 .. Len(s) : s[k] = LF /\ \A j \in 1 .. (k - 1) : s[j] # LF
    ELSE 0

\* s starts with an LF-terminated row free of quote, escape and CR bytes
PlainRow(c, s) ==
    /\ FirstLF(s) > 0
    /\ \A j \in 1 .. (FirstLF(s) - 1) : s[j] \notin {c.qte, c.esc, CR}

\* the substrings of s between the bytes d
RECURSIVE Split(_, _, _)
Split(s, d, cur) ==
    IF s = << >> THEN << cur >>
    ELSE IF Head(s) = d THEN << cur >> \o Split(Tail(s), d, << >>)
    ELSE Split(Tail(s), d, Append(cur, Head(s)))

Pieces(c, s) == Split(SubSeq(s, 1, FirstLF(s) - 1), c.delim, << >>)

FedRow ==
    /\ FedLast /\ last.ret > 0
    /\ RefRow(args, last.arg, 0, "start") = last.ret

\* C5: with a non-empty null marker, a field csv_feed returns is the null
\* indicator if and only if the field was unquoted and its bytes are the
\* marker; a quoted field is never the null indicator.
C5_NullIffUnquotedMarker ==
    (FedRow /\ cp.nullstr # << >>)
    => ( /\ last.nfield = Len(RowFields(args, last.arg))
         /\ \A i \in 1 .. last.nfield :
               (last.field[i] = NullField)
               <=> ( /\ ~RowFields(args, last.arg)[i].quoted
                     /\ RowFields(args, last.arg)[i].content = cp.nullstr ) )

Counters(st) == << st.linenum, st.charnum, st.rownum >>

\* C7: a csv_feed call that returns 0 or an error leaves the line, character
\* and row counters as they were (so they change only in a call that returns
\* a row), and no call makes a counter smaller.
C7_CountersFrame ==
    /\ (last.op = "csv_feed" /\ last.ret <= 0)
       => Counters(cp.state) = Counters(last.before)
    /\ (last.op = "csv_feed" /\ Counters(cp.state) # Counters(last.before))
       => last.ret > 0
    /\ last.op # "none"
       => \A k \in 1 .. 3 : Counters(cp.state)[k] >= Counters(last.before)[k]

\* C7 witness: after a row was returned, a csv_feed call on more bytes has
\* ended in an error
C7_Witness ==
    /\ last.op = "csv_feed" /\ last.ret = -1 /\ last.arg # << >>
    /\ "oom" \notin faults
    /\ cp.state.rownum >= 1 /\ cp.state.charnum >= 1
    /\ cp.state.echarnum > cp.state.charnum

\* C7 witness of the other case: after a row was returned, a csv_feed call
\* on more bytes has returned 0
C7_WitnessNeedMore ==
    /\ last.op = "csv_feed" /\ last.ret = 0 /\ last.arg # << >>
    /\ cp.state.rownum >= 1

\* the offset of the first CR outside quotes that the row grammar meets in
\* the row of s that starts at offset i; negative if the row ends, breaks
\* the grammar or runs out of bytes before such a CR
RECURSIVE RefCR(_, _, _, _)
RefCR(a, s, i, mode) ==
    IF i >= Len(s) THEN Incomplete
    ELSE IF mode = "start" /\ At(s, i) = OpenQte(a.qte) THEN RefCR(a, s, i + 1, "quoted")
    ELSE IF mode # "quoted"
    THEN IF At(s, i) = OpenDelim(a.delim) THEN RefCR(a, s, i + 1, "start")
         ELSE IF At(s, i) = CR THEN i
         ELSE IF At(s, i) \in {LF, OpenQte(a.qte), OpenEsc(a.qte, a.esc)} THEN Malformed
         ELSE RefCR(a, s, i + 1, "unquoted")
    ELSE IF At(s, i) = OpenQte(a.qte)
    THEN IF i + 1 >= Len(s) THEN Incomplete
         ELSE IF OpenEsc(a.qte, a.esc) = OpenQte(a.qte) /\ At(s, i + 1) = OpenQte(a.qte)
         THEN RefCR(a, s, i + 2, "quoted")
         ELSE IF At(s, i + 1) = OpenDelim(a.delim) THEN RefCR(a, s, i + 2, "start")
         ELSE IF At(s, i + 1) = CR THEN i + 1
         ELSE Malformed
    ELSE IF At(s, i) = OpenEsc(a.qte, a.esc)
    THEN IF i + 1 >= Len(s) THEN Incomplete ELSE RefCR(a, s, i + 2, "quoted")
    ELSE RefCR(a, s, i + 1, "quoted")

FirstCR(a, s) == RefCR(a, s, 0, "start")

\* C11: a row that csv_feed returns ends in LF, never in a CR alone; when
\* the first CR outside quotes is followed by LF the row ends there and
\* both bytes are consumed; when it is followed by another byte the call
\* fails with CSV_ECRLF and returns no row.
C11_CRNeedsLF ==
    FedLast
    => ( /\ last.ret > 0 => last.arg[last.ret] = LF
         /\ ( /\ FirstCR(args, last.arg) >= 0
              /\ FirstCR(args, last.arg) + 1 < Len(last.arg) )
            => IF At(last.arg, FirstCR(args, last.arg) + 1) = LF
               THEN /\ last.ret = FirstCR(args, last.arg) + 2
                    /\ ~last.fieldnull
               ELSE /\ last.ret = -1
                    /\ cp.state.errnum = "CSV_ECRLF"
                    /\ last.fieldnull /\ last.nfield = 0 )

\* C11 witness: csv_feed has failed with CSV_ECRLF on a buffer whose first
\* field is followed by a CR and a byte other than LF
C11_Witness ==
    /\ FedLast /\ last.ret = -1 /\ cp.state.errnum = "CSV_ECRLF"
    /\ FirstCR(args, last.arg) = 1
    /\ Len(last.arg) >= 3 /\ last.arg[3] # LF

\* C11 witness of the other case: a row ended by CR LF has been returned
C11_WitnessCRLF ==
    /\ FedLast /\ last.ret = 3 /\ FirstCR(args, last.arg) = 1
    /\ last.field = << << 97 >> >>

\* the bytes the scanner stops at
Special(a) == { OpenQte(a.qte), OpenEsc(a.qte, a.esc), OpenDelim(a.delim), CR, LF }

\* the offset of the first closing quote of the row of s starting at offset
\* i that is directly followed by a byte outside the special set; negative
\* if the grammar meets no such quote
RECURSIVE RefBadQuote(_, _, _, _)
RefBadQuote(a, s, i, mode) ==
    IF i >= Len(s) THEN Incomplete
    ELSE IF mode = "start" /\ At(s, i) = OpenQte(a.qte) THEN RefBadQuote(a, s, i + 1, "quoted")
    ELSE IF mode # "quoted"
    THEN IF At(s, i) = OpenDelim(a.delim) THEN RefBadQuote(a, s, i + 1, "start")
         ELSE IF At(s, i) \in {CR, LF, OpenQte(a.qte), OpenEsc(a.qte, a.esc)} THEN Malformed
         ELSE RefBadQuote(a, s, i + 1, "unquoted")
    ELSE IF At(s, i) = OpenQte(a.qte)
    THEN IF i + 1 >= Len(s) THEN Incomplete
         ELSE IF At(s, i + 1) \notin Special(a) THEN i
         ELSE IF OpenEsc(a.qte, a.esc) = OpenQte(a.qte) /\ At(s, i + 1) = OpenQte(a.qte)
         THEN RefBadQuote(a, s, i + 2, "quoted")
         ELSE IF At(s, i + 1) = OpenDelim(a.delim) THEN RefBadQuote(a, s, i + 2, "start")
         ELSE Malformed
    ELSE IF At(s, i) = OpenEsc(a.qte, a.esc)
    THEN IF i + 1 >= Len(s) THEN Incomplete ELSE RefBadQuote(a, s, i + 2, "quoted")
    ELSE RefBadQuote(a, s, i + 1, "quoted")

BadQuoteAt(a, s) == RefBadQuote(a, s, 0, "start")

\* C12: when the buffer holds, in a quoted field, a closing quote directly
\* followed by a byte outside the special set, the call returns -1 with
\* CSV_EQUOTE: it returns neither a row nor 0.
C12_BadQuote ==
    (FedLast /\ BadQuoteAt(args, last.arg) >= 0)
    => (last.ret = -1 /\ cp.state.errnum = "CSV_EQUOTE")

\* the most recent csv_feed call failed with CSV_ECRLF at a CR outside
\* quotes that is followed, in the buffer, by a byte other than LF
FailedAtCR ==
    /\ FedLast /\ last.ret = -1 /\ cp.state.errnum = "CSV_ECRLF"
    /\ FirstCR(args, last.arg) >= 0
    /\ FirstCR(args, last.arg) + 1 < Len(last.arg)

\* C13: when a call fails with CSV_ECRLF because of a CR that is not
\* followed by LF, the character number of the error record is the
\* character counter plus the zero-based offset of that CR in the buffer.
C13_ErrorAtCR ==
    FailedAtCR
    => cp.state.echarnum = last.before.charnum + FirstCR(args, last.arg)

\* C13 as the code has it: when a call fails with CSV_ECRLF because of a CR
\* that is not followed by LF, the character number of the error record is
\* the character counter plus the zero-based offset of the byte after that
\* CR (the byte that should have been LF), and the counter itself is as
\* before the call.
C13_ErrorAfterCR ==
    FailedAtCR
    => ( /\ cp.state.echarnum = last.before.charnum + FirstCR(args, last.arg) + 1
         /\ cp.state.charnum = last.before.charnum )

\* C13 witness: after a completed row, a call has failed with CSV_ECRLF at
\* a CR that is not the first byte of its buffer
C13_Witness ==
    /\ FailedAtCR
    /\ last.before.charnum >= 1
    /\ FirstCR(args, last.arg) >= 1

\* C14: on a buffer that is a proper prefix of a row of the grammar (the
\* row's end has not completely arrived, which includes a buffer ending
\* between the CR and the LF of a row end) the call returns 0, reports no
\* error and leaves the buffer as it was.
C14_PrefixNeedsMore ==
    ( /\ FedLast /\ last.arg # << >>
      /\ RefRow(args, last.arg, 0, "start") = Incomplete )
    => ( /\ last.ret = 0
         /\ last.after = last.arg
         /\ cp.state = last.before )

\* s starts with an LF-terminated row without CR whose fields do not start
\* with the quote or the escape byte, so that every field is unquoted
UnquotedRow(c, s) ==
    /\ FirstLF(s) > 0
    /\ \A j \in 1 .. (FirstLF(s) - 1) : s[j] # CR
    /\ \A i \in 1 .. Len(Pieces(c, s)) :
          Pieces(c, s)[i] = << >> \/ Pieces(c, s)[i][1] \notin {c.qte, c.esc}

\* C15: in a row of unquoted fields every field runs up to the next
\* delimiter or the row end, a quote or escape byte inside it being part
\* of its content: csv_feed returns the row with the delimiter-separated
\* substrings as its fields (a substring equal to the null marker as the
\* null indicator) and reports no error.
C15_QuoteInsideUnquoted ==
    (FedLast /\ UnquotedRow(cp, last.arg))
    => ( /\ last.ret = FirstLF(last.arg)
         /\ ~last.fieldnull
         /\ last.nfield = Len(Pieces(cp, last.arg))
         /\ \A i \in 1 .. last.nfield :
               Handed(args, last.field[i], Pieces(cp, last.arg)[i]) )

\* ---- long quoted fields: a client that holds one buffer whose first row
\* starts with a quoted field with escape sequences and runs of ordinary
\* bytes longer than the 16 bytes touchup moves at a time

\* longest run of ordinary bytes between two escape sequences
MaxRun == 18

Ordinary(k) == [ j \in 1 .. k |-> 97 + (j % 5) ]

EscSeqs(a) ==
    IF a.esc = 0 THEN { << DefaultQte, DefaultQte >> }
    ELSE { << a.esc, x >> : x \in { DefaultQte, a.esc, LF } }

LongTails ==
    { << LF >>, << DefaultDelim, 97, LF >>, << LF, 97, DefaultDelim, 78, LF >>,
      << CR, LF, 78 >> }

LongRows(a) ==
    { << DefaultQte >> \o Ordinary(k1) \o e1 \o Ordinary(k2) \o e2 \o Ordinary(k3)
         \o << DefaultQte >> \o t :
        k1 \in 0 .. 1, e1 \in EscSeqs(a), k2 \in 0 .. MaxRun,
        e2 \in EscSeqs(a) \cup { << >> }, k3 \in { 0, 1, MaxRun }, t \in LongTails }

InitLong ==
    /\ args \in { ArgsDefault, ArgsEscape }
    /\ input \in LongRows(args)
    /\ src = << >>
    /\ chunks = << >>
    /\ faults = {}
    /\ pc = "client"
    /\ buf = input /\ p = 0 /\ q = Len(input) /\ bufsz = Len(input)
    /\ eof = FALSE
    /\ cp = csv_open(args.qte, args.esc, args.delim, args.nullstr)
    /\ heap = {"cp"}
    /\ calls = << >>
    /\ ret = 0
    /\ last = NoCall

NextLong == Feed \/ FeedLast

SpecLong == InitLong /\ [][NextLong]_vars

\* the span of every field of the row of s that starts at offset i: from
\* its first content byte to the byte that ends it (delimiter, CR, LF, or
\* the closing quote)
RefSpan(from, to) == [ from |-> from, to |-> to ]
RECURSIVE RefSpans(_, _, _, _, _)
RefSpans(a, s, i, mode, from) ==
    IF mode = "start" /\ At(s, i) = OpenQte(a.qte) THEN RefSpans(a, s, i + 1, "quoted", i + 1)
    ELSE IF mode # "quoted"
    THEN IF At(s, i) = OpenDelim(a.delim)
         THEN << RefSpan(from, i) >> \o RefSpans(a, s, i + 1, "start", i + 1)
         ELSE IF At(s, i) \in {CR, LF} THEN << RefSpan(from, i) >>
         ELSE RefSpans(a, s, i + 1, "unquoted", from)
    ELSE IF At(s, i) = OpenQte(a.qte)
    THEN IF OpenEsc(a.qte, a.esc) = OpenQte(a.qte) /\ At(s, i + 1) = OpenQte(a.qte)
         THEN RefSpans(a, s, i + 2, "quoted", from)
         ELSE IF At(s, i + 1) = OpenDelim(a.delim)
         THEN << RefSpan(from, i) >> \o RefSpans(a, s, i + 2, "start", i + 2)
         ELSE << RefSpan(from, i) >>
    ELSE IF At(s, i) = OpenEsc(a.qte, a.esc)
    THEN RefSpans(a, s, i + 2, "quoted", from)
    ELSE RefSpans(a, s, i + 1, "quoted", from)

FieldSpans(a, s) == RefSpans(a, s, 0, "start", 0)

\* the offsets at which two buffers of the same length differ
Changed(b1, b2) == { j \in 0 .. (Len(b1) - 1) : At(b1, j) # At(b2, j) }

\* C16: a csv_feed call that returns a row changes the buffer only inside
\* the bytes of that row, and there only inside the spans of its fields
\* (first content byte up to the byte that ended the field); the fields it
\* returns are the contents of the row.
C16_TouchupInsideFields ==
    FedRow
    => ( /\ Len(last.after) = Len(last.arg)
         /\ \A j \in Changed(last.arg, last.after) :
               /\ j < last.ret
               /\ \E i \in 1 .. Len(FieldSpans(args, last.arg)) :
                     /\ FieldSpans(args, last.arg)[i].from <= j
                     /\ j <= FieldSpans(args, last.arg)[i].to
         /\ last.nfield = Len(RowFields(args, last.arg))
         /\ \A i \in 1 .. last.nfield :
               Handed(args, last.field[i], RowFields(args, last.arg)[i].content) )

\* C16 witness: a row has been returned whose first field was squeezed over
\* more than 16 bytes, with another row behind it in the buffer
C16_Witness ==
    /\ FedRow /\ last.ret < Len(last.arg)
    /\ Len(last.field[1]) > VecWidth + 1
    /\ Changed(last.arg, last.after) # {}
    /\ Cardinality(Changed(last.arg, last.after)) > VecWidth

\* C17: after any sequence of csv_feed and csv_feed_last calls the character
\* counter is the sum of the positive return values (which is how far the
\* client has advanced, p) and the row counter is the number of calls that
\* returned a row.
C17_CountersMatchReturns ==
    pc \in {"client", "failed"}
    => ( /\ cp.state.charnum = p
         /\ cp.state.rownum = Len(calls) )

\* C18: when csv_feed_last returns n > 0 on a buffer that starts with a row
\* of the grammar (its LF possibly missing at the end of the buffer), the
\* fields returned are those of the buffer's first row and n is the number
\* of bytes of the buffer that row occupies: up to and including its row
\* end when that is in the buffer, the whole buffer otherwise.
C18_FeedLastAdvance ==
    ( /\ last.op = "csv_feed_last" /\ "oom" \notin faults /\ last.ret > 0
      /\ RefRow(args, last.arg \o << LF >>, 0, "start") > 0 )
    => ( /\ last.ret = IF RefRow(args, last.arg, 0, "start") > 0
                       THEN RefRow(args, last.arg, 0, "start")
                       ELSE Len(last.arg)
         /\ last.nfield = Len(RowFields(args, last.arg \o << LF >>))
         /\ \A i \in 1 .. last.nfield :
               Handed(args, last.field[i],
                      RowFields(args, last.arg \o << LF >>)[i].content) )

\* the number of LF bytes among the first n bytes of s
CountLF(s, n) == Cardinality({ j \in 1 .. n : s[j] = LF })

\* C19: a csv_feed call that returns a row advances the line counter by the
\* number of LF bytes in the bytes it consumed: the row end and every LF
\* inside a quoted field, one that follows an escape byte included.
C19_LinesAreLFs ==
    FedRow
    => cp.state.linenum = last.before.linenum + CountLF(last.arg, last.ret)

\* ---- csv_scan as a program that keeps running.  The code is sequential:
\* until csv_scan returns, its next statement is executed.  Every step of
\* Next is taken from a state with pc # "done" and moves the position in the
\* code or the read offset p (StepsAdvance), and every state with
\* pc # "done" has a successor, so "the position eventually moves" is weak
\* fairness of Next, stated on the two variables a step always changes.
Advance ==
    /\ pc # "done"
    /\ pc' \in { "outer", "inner", "last", "done" }
    /\ p' \in 0 .. Len(input)

SpecLive == Init /\ [][Next]_vars /\ WF_<<pc, p>>(Advance)

\* every step of csv_scan moves the position in the code or the read offset
StepsAdvance == [][ pc # "done" /\ <<pc, p>>' # <<pc, p>> ]_vars

\* C20: csv_scan returns; a pass of the outer loop that goes on to the
\* inner loop has received bytes or reached end of stream; a pass of the
\* inner loop that stays in the loop has consumed at least one byte; and
\* the buffer grows only in the outer loop, when the unconsumed bytes fill
\* the whole buffer and csv_feed found no complete row in them.
C20_Terminates ==
    /\ <>(pc = "done")
    /\ StepsAdvance
    /\ [][ (pc = "outer" /\ pc' = "inner")
           => ( \/ Len(src') < Len(src) /\ q' - p' > q - p
                \/ eof' /\ src = << >> ) ]_vars
    /\ [][ (pc = "inner" /\ pc' = "inner") => p' > p ]_vars
    /\ [][ bufsz' # bufsz
           => ( /\ pc = "outer" /\ bufsz' = bufsz + BufGrow
                /\ p = 0 /\ q = bufsz
                /\ csv_feed(cp, buf, q, 0).ret = 0 ) ]_vars

\* C20 witness: csv_scan has returned 0 after the buffer grew for a row
\* longer than the initial buffer, delivered in several chunks
C20_Witness ==
    /\ pc = "done" /\ ret = 0 /\ faults = {}
    /\ bufsz > BufInit
    /\ Len(chunks) >= 2
    /\ Len(calls) >= 1 /\ calls[1].kind = "row"

====
